---- MODULE Spec2Model ----
(***************************************************************************)
(* A model of simtk::FeatureRep (MultibodyModeling/FeatureRep.cpp): the    *)
(* Feature tree, the placement expressions each Feature owns, the active   *)
(* placement pointer of each Feature, placement ownership resolution       *)
(* (place), registration (addPlacementLike, addPlacementValueLike),        *)
(* insertion of a copy of a prototype (addSubfeatureLike) and the subtree  *)
(* copy with its two repair passes (reparentMyChildren, fixPlacements).    *)
(*                                                                         *)
(* Features are numbered 1, 2, ... in the order they are allocated; a        *)
(* Feature pointer is such a number and the null pointer is Null.  A       *)
(* pointer to a stored Placement is the pair <<owner, index>> of the place *)
(* where the object lives: the Feature whose placementExpressions holds it *)
(* and its 0-based position there.  The owner and indexInOwner fields the  *)
(* object itself records are kept separately, as are each Feature's parent *)
(* and indexInParent, so that the back references can be wrong.            *)
(*                                                                         *)
(* An assert of the source that fails ends the program: the state reached  *)
(* records outcome "abort" and no operation follows it.                    *)
(***************************************************************************)
EXTENDS Integers, Sequences, FiniteSets, TLC

\* Bounds of the model.
MaxNodes == 5
MaxExprs == 2
MaxRefs == 2
RegMaxNodes == 4
RegMaxExprs == 2
RegMaxRefs == 2
ValMaxExprs == 2
ValMaxRefs == 1
MaxValues == 1
ValMaxValues == 2
MaxPathLen == 4
RealMaxNodes == 5
RealMaxExprs == 1
RealMaxRefs == 1

Null == 0
Nodes == 1..(2 * MaxNodes)
Names == {"a"}
RootName == "r"

\* The null Placement pointer.
NoPlacement == <<Null, 0>>

VARIABLES
    nFeatures,              \* number of Features allocated so far
    parent,                 \* FeatureRep::parent (Null for a root)
    indexInParent,          \* FeatureRep::indexInParent (-1 for a root)
    name,                   \* FeatureRep::name
    subfeatures,            \* FeatureRep::subfeatures: sequence of child handles
    placementExpressions,   \* FeatureRep::placementExpressions
    placementValues,        \* FeatureRep::placementValues
    placement,              \* FeatureRep::placement: the active placement pointer
    last,                   \* the last operation and its outcome
    pathname,               \* the pathname handed to isLegalFeaturePathname
    pathResult,             \* what isLegalFeaturePathname returned for it
    realized                \* the calls made by the last realize, in order

vars == <<nFeatures, parent, indexInParent, name, subfeatures,
          placementExpressions, placementValues, placement, last,
          pathname, pathResult, realized>>

\* The Feature store as one value; ok turns FALSE when an assert fails.
Heap ==
    [n |-> nFeatures, parent |-> parent, indexInParent |-> indexInParent,
     name |-> name, subfeatures |-> subfeatures,
     placementExpressions |-> placementExpressions,
     placementValues |-> placementValues, placement |-> placement, ok |-> TRUE]

Allocated(h) == 1..h.n

------------------------------------------------------------------------------
\* Tree navigation.

hasParentFeature(h, f) == h.parent[f] # Null

getParentPtr(h, f) == h.parent[f]

RECURSIVE findRootFeature(_, _)
findRootFeature(h, f) ==
    IF hasParentFeature(h, f) THEN findRootFeature(h, h.parent[f]) ELSE f

\* (mutant) The trace is not cleared when the walk fails.
TraceWalk_NoClear(h, oldRoot, fp, trace) ==
    LET RECURSIVE Walk(_, _)
        Walk(p, t) ==
            IF p = oldRoot THEN [found |-> TRUE, trace |-> t]
            ELSE IF getParentPtr(h, p) = Null THEN [found |-> FALSE, trace |-> t]
            ELSE Walk(getParentPtr(h, p), Append(t, h.indexInParent[p]))
    IN  Walk(fp, trace)

\* The loop of isFeatureInFeatureTree: fp walks up from f; the trace collects
\* each visited node's index in its parent, deepest first.
RECURSIVE TraceWalk(_, _, _, _)
TraceWalk(h, oldRoot, fp, trace) ==
    IF fp = oldRoot THEN [found |-> TRUE, trace |-> trace]
    ELSE IF getParentPtr(h, fp) = Null THEN [found |-> FALSE, trace |-> <<>>]
    ELSE TraceWalk(h, oldRoot, getParentPtr(h, fp),
                   Append(trace, h.indexInParent[fp]))

isFeatureInFeatureTreeTrace(h, oldRoot, f) == TraceWalk(h, oldRoot, f, <<>>)

\* (mutant) Every Feature is taken to be in the tree.
isFeatureInFeatureTree_Always(h, oldRoot, f) == TRUE

isFeatureInFeatureTree(h, oldRoot, f) ==
    isFeatureInFeatureTreeTrace(h, oldRoot, f).found

\* The descent of findCorrespondingFeature: the trace is replayed from its
\* last entry to its first. Stepping to a child that does not exist is Null.
RECURSIVE Descend(_, _, _, _)
Descend(h, node, trace, i) ==
    IF i < 1 THEN node
    ELSE IF node = Null \/ trace[i] < 0
            \/ trace[i] >= Len(h.subfeatures[node]) THEN Null
    ELSE Descend(h, h.subfeatures[node][trace[i] + 1], trace, i - 1)

\* (mutant) A Feature outside the old tree corresponds to the new root.
findCorrespondingFeature_NoTreeCheck(h, oldRoot, f, newRoot) ==
    LET t == isFeatureInFeatureTreeTrace(h, oldRoot, f)
    IN  Descend(h, newRoot, t.trace, Len(t.trace))

\* (mutant) The trace is replayed from its first entry to its last.
findCorrespondingFeature_Forward(h, oldRoot, f, newRoot) ==
    LET t == isFeatureInFeatureTreeTrace(h, oldRoot, f)
        RECURSIVE Fwd(_, _)
        Fwd(node, i) ==
            IF i > Len(t.trace) THEN node
            ELSE IF node = Null \/ t.trace[i] >= Len(h.subfeatures[node]) THEN Null
            ELSE Fwd(h.subfeatures[node][t.trace[i] + 1], i + 1)
    IN  IF ~t.found THEN Null ELSE Fwd(newRoot, 1)

findCorrespondingFeature(h, oldRoot, f, newRoot) ==
    LET t == isFeatureInFeatureTreeTrace(h, oldRoot, f)
    IN  IF ~t.found THEN Null
        ELSE Descend(h, newRoot, t.trace, Len(t.trace))

\* The path from a node to its root, the node first.
RECURSIVE PathToRoot(_, _)
PathToRoot(h, fp) ==
    IF fp = Null THEN <<>> ELSE <<fp>> \o PathToRoot(h, getParentPtr(h, fp))

\* The scan of findYoungestCommonAncestor from the root end of both paths.
RECURSIVE ScanPaths(_, _, _, _, _)
ScanPaths(f1path, f2path, i1, i2, ancestor) ==
    IF i1 = 0 \/ i2 = 0 THEN ancestor
    ELSE IF f1path[i1] # f2path[i2] THEN ancestor
    ELSE ScanPaths(f1path, f2path, i1 - 1, i2 - 1, f1path[i1])

\* (mutant) The root of a common tree is returned.
findYoungestCommonAncestor_Root(h, f1, f2) ==
    IF findRootFeature(h, f1) = findRootFeature(h, f2)
    THEN findRootFeature(h, f1) ELSE Null

findYoungestCommonAncestor(h, f1, f2) ==
    LET f1path == PathToRoot(h, f1)
        f2path == PathToRoot(h, f2)
    IN  ScanPaths(f1path, f2path, Len(f1path), Len(f2path), Null)

------------------------------------------------------------------------------
\* Names and pathnames. A string is the sequence of its characters.

Letters == {"a"}
Digits == {"2"}
Slash == "/"
Alphabet == Letters \cup Digits \cup {"_", Slash, "-"}

isalnum(c) == c \in Letters \cup Digits

isLegalFeatureName(n) ==
    /\ Len(n) # 0
    /\ \A i \in 1..Len(n) : isalnum(n[i]) \/ n[i] = "_"

\* The inner loop of isLegalFeaturePathname: the characters from position nxt
\* (counted from 0) up to the next '/' or the end are added to t.
RECURSIVE ReadSegment(_, _, _)
ReadSegment(path, nxt, t) ==
    IF nxt < Len(path) /\ path[nxt + 1] # Slash
    THEN ReadSegment(path, nxt + 1, Append(t, path[nxt + 1]))
    ELSE [t |-> t, nxt |-> nxt]

\* The outer loop of isLegalFeaturePathname.
RECURSIVE ScanSegments(_, _, _, _)
ScanSegments(path, nxt, segments, foundAtLeastOne) ==
    IF ~(nxt < Len(path))
    THEN [legal |-> foundAtLeastOne, segments |-> segments, done |-> TRUE]
    ELSE LET s == ReadSegment(path, nxt, <<>>)
         IN  IF ~isLegalFeatureName(s.t)
             THEN [legal |-> FALSE, segments |-> Append(segments, s.t),
                   done |-> TRUE]
             ELSE ScanSegments(path, s.nxt + 1, Append(segments, s.t), TRUE)

\* FeatureRep::isLegalFeaturePathname: the value returned and the segments
\* captured.
isLegalFeaturePathname(path) == ScanSegments(path, 0, <<>>, FALSE)

------------------------------------------------------------------------------
\* Placement expressions. A Placement is the record of its owner (Null when
\* unowned), its index in the owner (-1 when unowned) and the set of Features
\* it references directly.

Placement(owner, index, refs) ==
    [owner |-> owner, indexInOwner |-> index, refs |-> refs]

Unowned(refs) == Placement(Null, -1, refs)

isConstant(p) == p.refs = {}

\* The object a Placement pointer points at.
Deref(h, loc) == h.placementExpressions[loc[1]][loc[2] + 1]

hasPlacement(h, f) == h.placement[f] # NoPlacement

\* PlacementRep::isLimitedToSubtree: every referenced Feature is in the tree
\* rooted at root.
isLimitedToSubtree(h, p, root) ==
    \A r \in p.refs : r # Null /\ isFeatureInFeatureTree(h, root, r)

Min(S) == CHOOSE x \in S : \A y \in S : x <= y

\* PlacementRep::findAncestorFeature: the youngest common ancestor of
\* youngestAllowed and the referenced Features, taken pairwise.
RECURSIVE FoldAncestor(_, _, _)
FoldAncestor(h, refs, ancestor) ==
    IF refs = {} \/ ancestor = Null THEN ancestor
    ELSE LET r == Min(refs)
         IN  FoldAncestor(h, refs \ {r},
                          IF r = Null THEN Null
                          ELSE findYoungestCommonAncestor(h, ancestor, r))

\* (mutant) The referenced Features are not taken into account.
findAncestorFeature_NoRefs(h, p, youngestAllowed) == youngestAllowed

findAncestorFeature(h, p, youngestAllowed) ==
    FoldAncestor(h, p.refs, youngestAllowed)

\* PlacementRep::dependsOn: p references f, or references a Feature whose
\* active placement depends on f. The Features already visited are not
\* entered again.
RECURSIVE DependsOnVia(_, _, _, _)
DependsOnVia(h, refs, f, visited) ==
    \E r \in refs \ ({Null} \cup visited) :
        \/ r = f
        \/ /\ hasPlacement(h, r)
           /\ DependsOnVia(h, Deref(h, h.placement[r]).refs, f,
                           visited \cup {r})

dependsOn(h, p, f) == DependsOnVia(h, p.refs, f, {})

\* PlacementRep::cloneUnownedWithNewHandle: a copy with the same references
\* and no owner.
cloneUnownedWithNewHandle(p) == Unowned(p.refs)

setOwner(p, owner, index) ==
    [p EXCEPT !.owner = owner, !.indexInOwner = index]

TotalExprs(h) ==
    LET RECURSIVE Sum(_)
        Sum(k) == IF k = 0 THEN 0
                  ELSE Len(h.placementExpressions[k]) + Sum(k - 1)
    IN  Sum(h.n)

TotalValues(h) ==
    LET RECURSIVE Sum(_)
        Sum(k) == IF k = 0 THEN 0
                  ELSE Len(h.placementValues[k]) + Sum(k - 1)
    IN  Sum(h.n)

------------------------------------------------------------------------------
\* Realization. The calls of one realize are recorded in order: the call of
\* realize on a Feature, its return, and the call of realize on a placement.

Call(f) == [kind |-> "call", feature |-> f, placement |-> NoPlacement]
Return(f) == [kind |-> "return", feature |-> f, placement |-> NoPlacement]
RealizePlacement(f, loc) == [kind |-> "placement", feature |-> f, placement |-> loc]

\* (mutant) The placement of the Feature is realized before its subfeatures.
realize_PlacementFirst(h, f) ==
    LET RECURSIVE R(_), RFrom(_, _)
        R(g) == <<Call(g)>>
                \o (IF hasPlacement(h, g)
                    THEN <<RealizePlacement(g, h.placement[g])>> ELSE <<>>)
                \o RFrom(g, 1)
                \o <<Return(g)>>
        RFrom(g, i) == IF i > Len(h.subfeatures[g]) THEN <<>>
                       ELSE R(h.subfeatures[g][i]) \o RFrom(g, i + 1)
    IN  R(f)

\* FeatureRep::realize on Feature f.
RECURSIVE realize(_, _), realizeFrom(_, _, _)
realize(h, f) ==
    <<Call(f)>>
    \o realizeFrom(h, f, 1)
    \o (IF hasPlacement(h, f)
        THEN <<RealizePlacement(f, h.placement[f])>> ELSE <<>>)
    \o <<Return(f)>>

\* The loop of realize over the subfeatures of f, from the i-th on.
realizeFrom(h, f, i) ==
    IF i > Len(h.subfeatures[f]) THEN <<>>
    ELSE realize(h, h.subfeatures[f][i]) \o realizeFrom(h, f, i + 1)

------------------------------------------------------------------------------
\* Registration.

\* (mutant) The placement is registered without the locality check.
addPlacementLike_NoLocalCheck(h, owner, p) ==
    LET index == Len(h.placementExpressions[owner])
        newPlacement == setOwner(cloneUnownedWithNewHandle(p), owner, index)
    IN  [h |-> [h EXCEPT !.placementExpressions[owner] = Append(@, newPlacement)],
         thrown |-> "",
         good |-> <<owner, index>>]

\* (mutant) An owner that already stores an expression has its last one
\* replaced by the new placement.
addPlacementLike_Overwrite(h, owner, p) ==
    IF ~isLimitedToSubtree(h, p, owner)
    THEN [h |-> h, thrown |-> "PlacementMustBeLocal", good |-> NoPlacement]
    ELSE IF h.placementExpressions[owner] = <<>>
    THEN [h |-> [h EXCEPT !.placementExpressions[owner] =
                     <<setOwner(cloneUnownedWithNewHandle(p), owner, 0)>>],
          thrown |-> "", good |-> <<owner, 0>>]
    ELSE LET index == Len(h.placementExpressions[owner]) - 1
         IN  [h |-> [h EXCEPT !.placementExpressions[owner][index + 1] =
                        setOwner(cloneUnownedWithNewHandle(p), owner, index)],
              thrown |-> "", good |-> <<owner, index>>]

\* FeatureRep::addPlacementLike on Feature owner. The result is the store
\* afterwards, the exception thrown ("" when none) and the pointer returned.
addPlacementLike(h, owner, p) ==
    IF ~isLimitedToSubtree(h, p, owner)
    THEN [h |-> h, thrown |-> "PlacementMustBeLocal", good |-> NoPlacement]
    ELSE LET index == Len(h.placementExpressions[owner])
             newPlacement == setOwner(cloneUnownedWithNewHandle(p), owner, index)
         IN  [h |-> [h EXCEPT !.placementExpressions[owner] =
                                    Append(@, newPlacement)],
              thrown |-> "",
              good |-> <<owner, index>>]

\* A PlacementValue is the record of its owner and its index in the owner.
PlacementValue(owner, index) == [owner |-> owner, indexInOwner |-> index]

\* FeatureRep::addPlacementValueLike on Feature owner.
addPlacementValueLike(h, owner, v) ==
    LET index == Len(h.placementValues[owner])
    IN  [h EXCEPT !.placementValues[owner] =
                      Append(@, PlacementValue(owner, index))]

------------------------------------------------------------------------------
\* Placement ownership resolution.

\* (mutant) The Feature itself is always the youngest conceivable owner.
youngestAllowed_Self(h, f) == f

\* The youngest conceivable owner of a new placement of f (line 193).
youngestAllowed(h, f) ==
    IF hasParentFeature(h, f) THEN h.parent[f] ELSE f

\* (mutant) The sanity checks without the dependency check.
placeChecks_NoDependsOn(h, f, good) ==
    /\ Deref(h, good).owner # Null
    /\ isConstant(Deref(h, good)) \/ Deref(h, good).owner # f
    /\ isFeatureInFeatureTree(h, Deref(h, good).owner, f)

\* The sanity checks of place on the stored placement good (lines 205-208).
placeChecks(h, f, good) ==
    /\ Deref(h, good).owner # Null
    /\ isConstant(Deref(h, good)) \/ Deref(h, good).owner # f
    /\ isFeatureInFeatureTree(h, Deref(h, good).owner, f)
    /\ ~dependsOn(h, Deref(h, good), f)

\* The end of place (lines 199-210), r being the result of the
\* addPlacementLike call: the stored copy becomes the placement of f.
placeStored(h, f, r) ==
    IF r.thrown # ""
    THEN [h |-> r.h, outcome |-> r.thrown, good |-> NoPlacement]
    ELSE IF ~placeChecks(r.h, f, r.good)
    THEN [h |-> r.h, outcome |-> "abort", good |-> r.good]
    ELSE [h |-> [r.h EXCEPT !.placement[f] = r.good],
          outcome |-> "ok", good |-> r.good]

\* place from the assert on the common ancestor on (lines 196-210): the
\* placement is stored in the placement expressions of commonAncestor.
placeIn(h, f, p, commonAncestor) ==
    IF commonAncestor = Null
    THEN [h |-> h, outcome |-> "abort", good |-> NoPlacement]
    ELSE placeStored(h, f, addPlacementLike(h, commonAncestor, p))

\* FeatureRep::place on Feature f with placement p; convertible says whether
\* p has, or can be converted to, the placement type f requires. The result
\* is the store afterwards and the outcome: "ok", the exception thrown, or
\* "abort" when an assert fails.
place(h, f, p, convertible) ==
    IF ~convertible
    THEN [h |-> h, outcome |-> "PlacementCantBeUsedForThisFeature",
          good |-> NoPlacement]
    ELSE IF ~isLimitedToSubtree(h, p, findRootFeature(h, f))
    THEN [h |-> h, outcome |-> "FeatureAndPlacementOnDifferentTrees",
          good |-> NoPlacement]
    ELSE placeIn(h, f, p, findAncestorFeature(h, p, youngestAllowed(h, f)))

------------------------------------------------------------------------------
\* Subtree copy.

\* The Features of the subtree of f, f first, each child subtree in index
\* order. An empty handle (Null) among the children has no Features.
RECURSIVE SubtreeSeq(_, _), SubtreeSeqFrom(_, _, _)
SubtreeSeq(h, f) == <<f>> \o SubtreeSeqFrom(h, f, 1)

SubtreeSeqFrom(h, f, i) ==
    IF i > Len(h.subfeatures[f]) THEN <<>>
    ELSE (IF h.subfeatures[f][i] = Null THEN <<>>
          ELSE SubtreeSeq(h, h.subfeatures[f][i]))
         \o SubtreeSeqFrom(h, f, i + 1)

Range(s) == {s[i] : i \in 1..Len(s)}

\* The sequence F(1), ..., F(n).
SeqOf(n, F(_)) ==
    LET RECURSIVE Build(_)
        Build(k) == IF k = 0 THEN <<>> ELSE Append(Build(k - 1), F(k))
    IN  Build(n)

Subtree(h, f) == Range(SubtreeSeq(h, f))

\* FeatureRep::clone: the structural copy of the subtree of src. The copies
\* are new Features, allocated in the order of SubtreeSeq; every child handle
\* is a handle of the copy, and every other field is copied verbatim, so the
\* parent, owner, reference and active placement pointers of the copy still
\* point into the tree of src.
clone(h, src) ==
    LET L == SubtreeSeq(h, src)
        IsNew(x) == x > h.n /\ x <= h.n + Len(L)
        Old(x) == L[x - h.n]
        NewOf(c) == IF c = Null THEN Null
                    ELSE h.n + (CHOOSE i \in 1..Len(L) : L[i] = c)
        Copied(field) == [x \in Nodes |-> IF IsNew(x) THEN field[Old(x)]
                                          ELSE field[x]]
    IN  [h EXCEPT !.n = h.n + Len(L),
                  !.parent = Copied(h.parent),
                  !.indexInParent = Copied(h.indexInParent),
                  !.name = Copied(h.name),
                  !.subfeatures =
                      [x \in Nodes |->
                          IF IsNew(x)
                          THEN SeqOf(Len(h.subfeatures[Old(x)]),
                                     LAMBDA i : NewOf(h.subfeatures[Old(x)][i]))
                          ELSE h.subfeatures[x]],
                  !.placementExpressions = Copied(h.placementExpressions),
                  !.placementValues = Copied(h.placementValues),
                  !.placement = Copied(h.placement)]

\* (mutant) The index in the parent is not recorded.
setParentFeature_ParentOnly(h, f, p, index) == [h EXCEPT !.parent[f] = p]

setParentFeature(h, f, p, index) ==
    [h EXCEPT !.parent[f] = p, !.indexInParent[f] = index]

\* (mutant) The owned placement expressions and values keep their old owner.
reparentMyPlacements_NoStamp(h, f) == h

\* The second and third loop of reparentMyChildren: every owned placement
\* expression and value is stamped with its new owner.
reparentMyPlacements(h, f) ==
    LET pe == h.placementExpressions[f]
        pv == h.placementValues[f]
    IN  IF \/ \E i \in 1..Len(pe) :
                  pe[i].owner = Null \/ pe[i].indexInOwner # i - 1
           \/ \E i \in 1..Len(pv) :
                  pv[i].owner = Null \/ pv[i].indexInOwner # i - 1
        THEN [h EXCEPT !.ok = FALSE]
        ELSE [h EXCEPT
                !.placementExpressions[f] =
                    SeqOf(Len(pe), LAMBDA i : setOwner(pe[i], f, i - 1)),
                !.placementValues[f] =
                    SeqOf(Len(pv), LAMBDA i : PlacementValue(f, i - 1))]

\* FeatureRep::reparentMyChildren on Feature f; ReparentFrom is its first
\* loop from child i on. A child handle without a rep, or a child whose
\* recorded parent or index is wrong, fails an assert.
RECURSIVE reparentMyChildren(_, _), ReparentFrom(_, _, _)
reparentMyChildren(h, f) ==
    LET h1 == ReparentFrom(h, f, 0)
    IN  IF h1.ok THEN reparentMyPlacements(h1, f) ELSE h1

ReparentFrom(h, f, i) ==
    IF i >= Len(h.subfeatures[f]) THEN h
    ELSE LET c == h.subfeatures[f][i + 1]
         IN  IF c = Null THEN [h EXCEPT !.ok = FALSE]
             ELSE IF ~hasParentFeature(h, c) \/ h.indexInParent[c] # i
             THEN [h EXCEPT !.ok = FALSE]
             ELSE LET h1 == reparentMyChildren(setParentFeature(h, c, f, i), c)
                  IN  IF h1.ok THEN ReparentFrom(h1, f, i + 1) ELSE h1

\* PlacementRep::repairFeatureReferences: every referenced Feature is
\* replaced by the Feature corresponding to it under newRoot.
repairFeatureReferences(h, p, oldRoot, newRoot) ==
    [p EXCEPT !.refs =
        {IF r = Null THEN Null
         ELSE findCorrespondingFeature(h, oldRoot, r, newRoot) : r \in p.refs}]

\* (mutant) The pointer is returned as it is, still pointing at the old tree.
findCorrespondingPlacement_Same(h, oldRoot, loc, newRoot) ==
    [ptr |-> loc, ok |-> TRUE]

\* FeatureRep::findCorrespondingPlacement for the Placement that loc points
\* at. The result is the pointer found (NoPlacement for none) and whether
\* the asserts held.
findCorrespondingPlacement(h, oldRoot, loc, newRoot) ==
    LET p == Deref(h, loc)
        corrOwner == findCorrespondingFeature(h, oldRoot, p.owner, newRoot)
    IN  IF p.owner = Null THEN [ptr |-> NoPlacement, ok |-> TRUE]
        ELSE IF corrOwner = Null THEN [ptr |-> NoPlacement, ok |-> TRUE]
        ELSE IF p.indexInOwner < 0
                \/ p.indexInOwner >= Len(h.placementExpressions[corrOwner])
        THEN [ptr |-> NoPlacement, ok |-> FALSE]
        ELSE LET newTreeRef == <<corrOwner, p.indexInOwner>>
             IN  [ptr |-> newTreeRef,
                  ok |-> /\ Deref(h, newTreeRef).owner = corrOwner
                         /\ Deref(h, newTreeRef).indexInOwner = p.indexInOwner]

\* (mutant) The Feature references of the owned expressions are not repaired.
fixMyPlacements_NoRefRepair(h, f, oldRoot, newRoot) ==
    IF ~hasPlacement(h, f) THEN h
    ELSE LET c == findCorrespondingPlacement(h, oldRoot, h.placement[f], newRoot)
         IN  [h EXCEPT !.placement[f] = c.ptr, !.ok = c.ok]

\* The loop over the owned placement expressions and the repair of the
\* active placement pointer in fixPlacements (lines 416-423).
fixMyPlacements(h, f, oldRoot, newRoot) ==
    LET pe == h.placementExpressions[f]
        h1 == [h EXCEPT !.placementExpressions[f] =
                  SeqOf(Len(pe), LAMBDA i :
                      repairFeatureReferences(h, pe[i], oldRoot, newRoot))]
    IN  IF ~hasPlacement(h1, f) THEN h1
        ELSE LET c == findCorrespondingPlacement(h1, oldRoot, h1.placement[f],
                                                 newRoot)
             IN  [h1 EXCEPT !.placement[f] = c.ptr, !.ok = c.ok]

\* FeatureRep::fixPlacements on Feature f; FixFrom is its first loop from
\* child i on.
RECURSIVE fixPlacements(_, _, _, _), FixFrom(_, _, _, _, _)
fixPlacements(h, f, oldRoot, newRoot) ==
    LET h1 == FixFrom(h, f, 0, oldRoot, newRoot)
    IN  IF h1.ok THEN fixMyPlacements(h1, f, oldRoot, newRoot) ELSE h1

FixFrom(h, f, i, oldRoot, newRoot) ==
    IF i >= Len(h.subfeatures[f]) THEN h
    ELSE LET c == h.subfeatures[f][i + 1]
         IN  IF c = Null THEN [h EXCEPT !.ok = FALSE]
             ELSE LET h1 == fixPlacements(h, c, oldRoot, newRoot)
                  IN  IF h1.ok THEN FixFrom(h1, f, i + 1, oldRoot, newRoot)
                      ELSE h1

\* The store of cloneWithoutParentOrExternalPlacements between its passes:
\* the copy is made a root and reparentMyChildren has run, fixPlacements has
\* not (lines 120-127).
reparentedCopy(h, src) ==
    reparentMyChildren(setParentFeature(clone(h, src), h.n + 1, Null, -1),
                       h.n + 1)

\* The last pass of cloneWithoutParentOrExternalPlacements (line 131) on the
\* store h2 that the earlier passes left, and the result of the call.
fixedCopy(h2, src, copy) ==
    [h |-> IF h2.ok THEN fixPlacements(h2, copy, src, copy) ELSE h2,
     copy |-> copy]

\* (mutant) fixPlacements runs before reparentMyChildren.
cloneWithoutParentOrExternalPlacements_FixFirst(h, src) ==
    LET copy == h.n + 1
        h1 == setParentFeature(clone(h, src), copy, Null, -1)
        h2 == fixPlacements(h1, copy, src, copy)
        h3 == IF h2.ok THEN reparentMyChildren(h2, copy) ELSE h2
    IN  [h |-> h3, copy |-> copy]

\* FeatureRep::cloneWithoutParentOrExternalPlacements on Feature src: the
\* store afterwards and the root of the copy.
cloneWithoutParentOrExternalPlacements(h, src) ==
    fixedCopy(reparentedCopy(h, src), src, h.n + 1)

setName(h, f, nm) == [h EXCEPT !.name[f] = nm]

\* The end of addSubfeatureLike (lines 219-221), c being the result of the
\* cloneWithoutParentOrExternalPlacements call: the copy goes into the handle
\* at index, then gets its parent and its name.
adoptCopy(c, p, index, nm) ==
    LET h2 == [c.h EXCEPT !.subfeatures[p][index + 1] = c.copy]
    IN  IF ~c.h.ok
        THEN [h |-> h2, outcome |-> "abort", newFeature |-> c.copy]
        ELSE [h |-> setName(setParentFeature(h2, c.copy, p, index), c.copy, nm),
              outcome |-> "ok", newFeature |-> c.copy]

\* (mutant) The prototype itself, not a copy of it, becomes the child.
addSubfeatureLike_NoClone(h, p, f, nm) ==
    [h |-> setName(setParentFeature(
                       [h EXCEPT !.subfeatures[p] = Append(@, f)],
                       f, p, Len(h.subfeatures[p])), f, nm),
     outcome |-> "ok", newFeature |-> f]

\* FeatureRep::addSubfeatureLike on Feature p with prototype f: an empty
\* handle is appended to p's children, then the copy of f is made into it.
addSubfeatureLike(h, p, f, nm) ==
    adoptCopy(cloneWithoutParentOrExternalPlacements(
                  [h EXCEPT !.subfeatures[p] = Append(@, Null)], f),
              p, Len(h.subfeatures[p]), nm)

\* (mutant) A failure of the hook takes the new child out again.
hookRollback(h, r, hookFails) ==
    IF r.outcome = "ok" /\ hookFails
    THEN [h |-> h, outcome |-> "SubfeatureHookFailed",
          newFeature |-> r.newFeature]
    ELSE r

addSubfeatureLikeHook_Rollback(h, p, f, nm, hookFails) ==
    hookRollback(h, addSubfeatureLike(h, p, f, nm), hookFails)

\* The call of postProcessNewSubfeature (line 222), r being what
\* addSubfeatureLike has done before it: a failing hook changes the outcome
\* and nothing else.
postProcessNewSubfeature(r, hookFails) ==
    IF r.outcome = "ok" /\ hookFails
    THEN [r EXCEPT !.outcome = "SubfeatureHookFailed"]
    ELSE r

\* addSubfeatureLike with the outcome of postProcessNewSubfeature: when the
\* hook fails the call ends there, with all it has done before.
addSubfeatureLikeHook(h, p, f, nm, hookFails) ==
    postProcessNewSubfeature(addSubfeatureLike(h, p, f, nm), hookFails)

------------------------------------------------------------------------------
\* The program: one root Feature is constructed, then the operations are
\* called in any order with any arguments. b bounds what a behaviour builds:
\* the Features, the stored expressions and values, and the Features an
\* argument placement references.

\* The record of the last operation: its name and outcome and, for a copy,
\* the Feature copied and the root of the copy (Null otherwise).
Last(op, outcome, src, copy) ==
    [op |-> op, outcome |-> outcome, src |-> src, copy |-> copy]

SetHeap(h) ==
    /\ nFeatures' = h.n
    /\ parent' = h.parent
    /\ indexInParent' = h.indexInParent
    /\ name' = h.name
    /\ subfeatures' = h.subfeatures
    /\ placementExpressions' = h.placementExpressions
    /\ placementValues' = h.placementValues
    /\ placement' = h.placement
    /\ UNCHANGED <<pathname, pathResult>>
    /\ realized' = <<>>

Running == last.outcome # "abort"

CoreBounds ==
    [nodes |-> MaxNodes, exprs |-> MaxExprs, values |-> 0, refs |-> MaxRefs]

RegBounds ==
    [nodes |-> RegMaxNodes, exprs |-> RegMaxExprs, values |-> MaxValues,
     refs |-> RegMaxRefs]

ValBounds ==
    [nodes |-> MaxNodes, exprs |-> ValMaxExprs, values |-> ValMaxValues,
     refs |-> ValMaxRefs]

WithinBounds(b, h) ==
    /\ h.n <= b.nodes
    /\ TotalExprs(h) <= b.exprs
    /\ TotalValues(h) <= b.values

\* The placements an operation may be handed: any unowned expression over
\* at most b.refs Features, or any stored expression.
PlacementArgs(b, h) ==
    {Unowned(refs) : refs \in {R \in SUBSET Allocated(h) : Cardinality(R) <= b.refs}}
    \cup UNION {Range(h.placementExpressions[f]) : f \in Allocated(h)}

\* No pathname has been checked.
NoResult == [legal |-> FALSE, segments |-> <<>>, done |-> FALSE]

InitFeatures ==
    /\ nFeatures = 1
    /\ parent = [x \in Nodes |-> Null]
    /\ indexInParent = [x \in Nodes |-> -1]
    /\ name = [x \in Nodes |-> RootName]
    /\ subfeatures = [x \in Nodes |-> <<>>]
    /\ placementExpressions = [x \in Nodes |-> <<>>]
    /\ placementValues = [x \in Nodes |-> <<>>]
    /\ placement = [x \in Nodes |-> NoPlacement]
    /\ last = Last("init", "ok", Null, Null)

Init ==
    /\ InitFeatures
    /\ pathname = <<>>
    /\ pathResult = NoResult
    /\ realized = <<>>

\* The store and the record of the last call after an operation with
\* result r, kept within the bounds b.
Done(b, op, r, src, copy) ==
    /\ WithinBounds(b, r.h)
    /\ SetHeap(r.h)
    /\ last' = Last(op, r.outcome, src, copy)

Added(b, r, f) == Done(b, "addSubfeatureLike", r, f, r.newFeature)

Cloned(b, r, src) ==
    /\ WithinBounds(b, r.h)
    /\ SetHeap(r.h)
    /\ last' = Last("clone", IF r.h.ok THEN "ok" ELSE "abort", src, r.copy)

Place(b, f, p, convertible) ==
    /\ Running
    /\ TotalExprs(Heap) < b.exprs
    /\ Done(b, "place", place(Heap, f, p, convertible), Null, Null)

AddSubfeatureLike(b, p, f, nm, hookFails) ==
    /\ Running
    /\ nFeatures + Len(SubtreeSeq(Heap, f)) <= b.nodes
    /\ Added(b, addSubfeatureLikeHook(Heap, p, f, nm, hookFails), f)

AddPlacementLike(b, owner, p) ==
    /\ Running
    /\ TotalExprs(Heap) < b.exprs
    /\ LET r == addPlacementLike(Heap, owner, p)
       IN  /\ SetHeap(r.h)
           /\ last' = Last("addPlacementLike",
                           IF r.thrown = "" THEN "ok" ELSE r.thrown, Null, Null)

AddPlacementValueLike(b, owner) ==
    /\ Running
    /\ TotalValues(Heap) < MaxValues
    /\ SetHeap(addPlacementValueLike(Heap, owner, PlacementValue(Null, -1)))
    /\ last' = Last("addPlacementValueLike", "ok", Null, Null)

\* A Feature is copied into a handle of its own: the copy is a new root.
CloneFeature(b, src) ==
    /\ Running
    /\ nFeatures + Len(SubtreeSeq(Heap, src)) <= b.nodes
    /\ Cloned(b, cloneWithoutParentOrExternalPlacements(Heap, src), src)

\* A pathname is checked.
CheckPathname ==
    /\ ~pathResult.done
    /\ pathResult' = isLegalFeaturePathname(pathname)
    /\ UNCHANGED <<nFeatures, parent, indexInParent, name, subfeatures,
                   placementExpressions, placementValues, placement, last,
                   pathname, realized>>

\* The strings of at most n characters.
RECURSIVE Strings(_)
Strings(n) ==
    IF n = 0 THEN {<<>>}
    ELSE Strings(n - 1)
         \cup {Append(s, c) : s \in {x \in Strings(n - 1) : Len(x) = n - 1},
                              c \in Alphabet}

\* Pathname checking: any pathname of at most MaxPathLen characters is handed
\* to isLegalFeaturePathname.
InitPath ==
    /\ InitFeatures
    /\ pathname \in Strings(MaxPathLen)
    /\ pathResult = NoResult
    /\ realized = <<>>

NextPath == CheckPathname

SpecPath == InitPath /\ [][NextPath]_vars

\* A Feature is realized.
Realize(f) ==
    /\ Running
    /\ realized' = realize(Heap, f)
    /\ last' = Last("realize", "ok", f, Null)
    /\ UNCHANGED <<nFeatures, parent, indexInParent, name, subfeatures,
                   placementExpressions, placementValues, placement,
                   pathname, pathResult>>

RealBounds ==
    [nodes |-> RealMaxNodes, exprs |-> RealMaxExprs, values |-> 0,
     refs |-> RealMaxRefs]

\* Realization: trees are built and placed, and any Feature is realized.
NextRealize ==
    \/ \E f \in Allocated(Heap), p \in PlacementArgs(RealBounds, Heap),
          c \in BOOLEAN :
           Place(RealBounds, f, p, c)
    \/ \E p \in Allocated(Heap), f \in Allocated(Heap), nm \in Names :
           AddSubfeatureLike(RealBounds, p, f, nm, FALSE)
    \/ \E src \in Allocated(Heap) : CloneFeature(RealBounds, src)
    \/ \E f \in Allocated(Heap) : Realize(f)

SpecRealize == Init /\ [][NextRealize]_vars

\* Insertion with a failing hook: trees are built and placed, and the
\* post-processing hook of addSubfeatureLike may fail.
NextHook ==
    \/ \E f \in Allocated(Heap), p \in PlacementArgs(RealBounds, Heap),
          c \in BOOLEAN :
           Place(RealBounds, f, p, c)
    \/ \E p \in Allocated(Heap), f \in Allocated(Heap), nm \in Names,
          hookFails \in BOOLEAN :
           AddSubfeatureLike(RealBounds, p, f, nm, hookFails)
    \/ \E src \in Allocated(Heap) : CloneFeature(RealBounds, src)

SpecHook == Init /\ [][NextHook]_vars

\* Placement and insertion: place, addSubfeatureLike and copies of Features.
Next ==
    \/ \E f \in Allocated(Heap), p \in PlacementArgs(CoreBounds, Heap),
          c \in BOOLEAN :
           Place(CoreBounds, f, p, c)
    \/ \E p \in Allocated(Heap), f \in Allocated(Heap), nm \in Names :
           AddSubfeatureLike(CoreBounds, p, f, nm, FALSE)
    \/ \E src \in Allocated(Heap) : CloneFeature(CoreBounds, src)

Spec == Init /\ [][Next]_vars

\* The same with the registration primitives called directly as well.
NextReg ==
    \/ \E f \in Allocated(Heap), p \in PlacementArgs(RegBounds, Heap),
          c \in BOOLEAN :
           Place(RegBounds, f, p, c)
    \/ \E p \in Allocated(Heap), f \in Allocated(Heap), nm \in Names :
           AddSubfeatureLike(RegBounds, p, f, nm, FALSE)
    \/ \E src \in Allocated(Heap) : CloneFeature(RegBounds, src)
    \/ \E owner \in Allocated(Heap), p \in PlacementArgs(RegBounds, Heap) :
           AddPlacementLike(RegBounds, owner, p)
    \/ \E owner \in Allocated(Heap) : AddPlacementValueLike(RegBounds, owner)

SpecReg == Init /\ [][NextReg]_vars

\* Placement and insertion with placement values registered as well.
NextVal ==
    \/ \E f \in Allocated(Heap), p \in PlacementArgs(ValBounds, Heap),
          c \in BOOLEAN :
           Place(ValBounds, f, p, c)
    \/ \E p \in Allocated(Heap), f \in Allocated(Heap), nm \in Names :
           AddSubfeatureLike(ValBounds, p, f, nm, FALSE)
    \/ \E src \in Allocated(Heap) : CloneFeature(ValBounds, src)
    \/ \E owner \in Allocated(Heap) : AddPlacementValueLike(ValBounds, owner)

SpecVal == Init /\ [][NextVal]_vars

------------------------------------------------------------------------------
\* The tree as its child sequences give it, for stating the properties: these
\* definitions read neither the parent pointers nor the recorded owners.

\* a is f or an ancestor of f.
AncestorOrSelf(h, a, f) == f \in Subtree(h, a)

\* The Feature whose child sequence holds f, Null for a root.
ParentOf(h, f) ==
    IF \E g \in Allocated(h) : f \in Range(h.subfeatures[g])
    THEN CHOOSE g \in Allocated(h) : f \in Range(h.subfeatures[g])
    ELSE Null

IsRoot(h, f) == ParentOf(h, f) = Null

\* The deepest Feature that is an ancestor-or-self of every Feature of S,
\* Null when there is none.
DeepestCommonAncestor(h, S) ==
    LET Common == {a \in Allocated(h) : \A x \in S : AncestorOrSelf(h, a, x)}
    IN  IF Common = {} THEN Null
        ELSE CHOOSE a \in Common : \A a2 \in Common : AncestorOrSelf(h, a2, a)

\* The stored placement expressions, as pointers.
StoredPlacements(h) ==
    UNION {{<<f, i - 1>> : i \in 1..Len(h.placementExpressions[f])} :
              f \in Allocated(h)}

\* The Features reached from the set S of Features through the references of
\* active placements.
RECURSIVE RefClosure(_, _)
RefClosure(h, S) ==
    LET T == S \cup UNION {Deref(h, h.placement[g]).refs :
                              g \in {x \in S \ {Null} : hasPlacement(h, x)}}
    IN  IF T = S THEN S ELSE RefClosure(h, T)

\* Placement p depends on Feature f.
Depends(h, p, f) == f \in RefClosure(h, p.refs)

------------------------------------------------------------------------------
\* C1. Ownership locality: after any sequence of successful place and
\* addSubfeatureLike operations (and copies), the recorded owner of every
\* stored placement expression is an ancestor-or-self of every Feature the
\* expression references directly.
OwnershipLocality ==
    Running =>
        \A loc \in StoredPlacements(Heap) :
            \A r \in Deref(Heap, loc).refs :
                /\ r # Null
                /\ Deref(Heap, loc).owner # Null
                /\ AncestorOrSelf(Heap, Deref(Heap, loc).owner, r)

\* A copy inserted by addSubfeatureLike owns an expression that references a
\* Feature of the copy, after the prototype's expression was stored by place.
OwnershipLocalityWitness ==
    /\ last.op = "addSubfeatureLike" /\ last.outcome = "ok"
    /\ \E loc \in StoredPlacements(Heap) :
          /\ loc[1] \in Subtree(Heap, last.copy)
          /\ Deref(Heap, loc).refs # {}
          /\ \E f \in Subtree(Heap, last.copy) : placement[f] = loc

\* C2. Owner computation: when place(f, p) succeeds, the stored copy of p is
\* f's active placement, references what p references, and is owned by the
\* deepest Feature that is an ancestor-or-self of bound and of every Feature p
\* references, where bound is f for a root f and f's parent otherwise.
OwnerComputation ==
    Running =>
        \A f \in Allocated(Heap), p \in PlacementArgs(CoreBounds, Heap) :
            LET r == place(Heap, f, p, TRUE)
                bound == IF IsRoot(Heap, f) THEN f ELSE ParentOf(Heap, f)
            IN  r.outcome = "ok" =>
                    /\ r.h.placement[f] = r.good
                    /\ r.good \in StoredPlacements(r.h)
                    /\ r.good \notin StoredPlacements(Heap)
                    /\ Deref(r.h, r.good).refs = p.refs
                    /\ Deref(r.h, r.good).owner = r.good[1]
                    /\ Deref(r.h, r.good).owner =
                           DeepestCommonAncestor(Heap, {bound} \cup p.refs)

\* Root{A{X},B} with X placed on an expression referencing B: the owner is
\* Root.
OwnerComputationWitness ==
    /\ last.op = "place" /\ last.outcome = "ok"
    /\ \E root, a, x, b \in Allocated(Heap) :
          /\ IsRoot(Heap, root)
          /\ ParentOf(Heap, a) = root /\ ParentOf(Heap, b) = root /\ a # b
          /\ ParentOf(Heap, x) = a
          /\ hasPlacement(Heap, x)
          /\ Deref(Heap, placement[x]).refs = {b}
          /\ Deref(Heap, placement[x]).owner = root

\* C3 as stated. Ownership minimality in every state: a reference-free active
\* placement of a non-root Feature f is owned by f's parent, never by f.
OwnershipMinimalityEveryState ==
    Running =>
        \A f \in Allocated(Heap) :
            (hasPlacement(Heap, f) /\ ~IsRoot(Heap, f)
             /\ isConstant(Deref(Heap, placement[f])))
            => /\ Deref(Heap, placement[f]).owner = ParentOf(Heap, f)
               /\ Deref(Heap, placement[f]).owner # f

\* C3 as amended. A successful place(f, p) of a reference-free p on a non-root
\* f stores it under f's parent, never under f; and in every state a
\* reference-free active placement of a non-root Feature f is owned by f's
\* parent or by f itself (the latter arises when f is a copy of a Feature
\* that owned its placement itself).
OwnershipMinimality ==
    Running =>
        /\ \A f \in Allocated(Heap), p \in PlacementArgs(CoreBounds, Heap) :
              LET r == place(Heap, f, p, TRUE)
              IN  (r.outcome = "ok" /\ isConstant(p) /\ ~IsRoot(Heap, f))
                  => /\ Deref(r.h, r.h.placement[f]).owner = ParentOf(Heap, f)
                     /\ Deref(r.h, r.h.placement[f]).owner # f
        /\ \A f \in Allocated(Heap) :
              (hasPlacement(Heap, f) /\ ~IsRoot(Heap, f)
               /\ isConstant(Deref(Heap, placement[f])))
              => Deref(Heap, placement[f]).owner \in {f, ParentOf(Heap, f)}

\* A reference-free placement has just been placed on a non-root Feature and
\* is owned by the parent.
OwnershipMinimalityWitness ==
    /\ last.op = "place" /\ last.outcome = "ok"
    /\ \E f \in Allocated(Heap) :
          /\ ~IsRoot(Heap, f)
          /\ hasPlacement(Heap, f)
          /\ placement[f][2] = Len(placementExpressions[placement[f][1]]) - 1
          /\ isConstant(Deref(Heap, placement[f]))
          /\ Deref(Heap, placement[f]).owner = ParentOf(Heap, f)

\* C4. Active-placement locality: the active placement pointer of a Feature
\* points at an expression stored in the placement sequence of the Feature
\* itself or of one of its ancestors, never into another tree.
ActivePlacementLocality ==
    Running =>
        \A f \in Allocated(Heap) :
            hasPlacement(Heap, f) =>
                /\ placement[f] \in StoredPlacements(Heap)
                /\ AncestorOrSelf(Heap, placement[f][1], f)

\* A copy has just been made in which a Feature's active placement is stored
\* on an ancestor inside the copy.
ActivePlacementLocalityWitness ==
    /\ last.op \in {"clone", "addSubfeatureLike"} /\ last.outcome = "ok"
    /\ \E f \in Subtree(Heap, last.copy) :
          /\ hasPlacement(Heap, f)
          /\ placement[f][1] # f
          /\ placement[f][1] \in Subtree(Heap, last.copy)

\* C5. Acyclicity: place(f, p) with p depending on f, directly or through
\* the active placements of the Features p references, never completes
\* successfully; and no Feature's active placement depends on that Feature.
Acyclicity ==
    Running =>
        /\ \A f \in Allocated(Heap), p \in PlacementArgs(CoreBounds, Heap),
              c \in BOOLEAN :
              Depends(Heap, p, f) => place(Heap, f, p, c).outcome # "ok"
        /\ \A f \in Allocated(Heap) :
              hasPlacement(Heap, f) =>
                  ~Depends(Heap, Deref(Heap, placement[f]), f)

\* A place on a non-root Feature f of an expression that does not reference
\* f but depends on it through another Feature's active placement has been
\* rejected: the expression is stored under a proper ancestor of f and no
\* active placement points at it.
AcyclicityWitness ==
    /\ last.op = "place" /\ last.outcome = "abort"
    /\ \E f \in Allocated(Heap), loc \in StoredPlacements(Heap) :
          /\ \A g \in Allocated(Heap) : placement[g] # loc
          /\ loc[1] # f /\ AncestorOrSelf(Heap, loc[1], f)
          /\ f \notin Deref(Heap, loc).refs
          /\ Depends(Heap, Deref(Heap, loc), f)

------------------------------------------------------------------------------
\* Structural position: the child indices that lead from a root down to a
\* Feature, read from the child sequences.

RECURSIVE NodeAt(_, _, _)
NodeAt(h, node, path) ==
    IF path = <<>> THEN node
    ELSE IF node = Null \/ Head(path) >= Len(h.subfeatures[node]) THEN Null
    ELSE NodeAt(h, h.subfeatures[node][Head(path) + 1], Tail(path))

RECURSIVE PathOf(_, _, _)
PathOf(h, root, x) ==
    IF x = root THEN <<>>
    ELSE LET i == CHOOSE k \in 1..Len(h.subfeatures[root]) :
                      x \in Subtree(h, h.subfeatures[root][k])
         IN  <<i - 1>> \o PathOf(h, h.subfeatures[root][i], x)

\* The Feature under newRoot (in store h2) at the position x has under
\* oldRoot (in store h1); Null when x is not under oldRoot.
Corresponding(h1, oldRoot, x, h2, newRoot) ==
    IF x # Null /\ x \in Subtree(h1, oldRoot)
    THEN NodeAt(h2, newRoot, PathOf(h1, oldRoot, x))
    ELSE Null

\* The root of the tree of f.
RootOf(h, f) ==
    CHOOSE a \in Allocated(h) : IsRoot(h, a) /\ AncestorOrSelf(h, a, f)

\* The subtrees that can still be copied within MaxNodes Features.
Copyable(h) ==
    {t \in Allocated(h) : h.n + Len(SubtreeSeq(h, t)) <= MaxNodes}

------------------------------------------------------------------------------
\* C6. Clone purity: the copy made by cloneWithoutParentOrExternalPlacements
\* of any subtree t is a parentless root of new Features with the shape of t;
\* every parent pointer, every owner of an owned placement expression or
\* value, every Feature reference and every active placement of the copy is
\* none or resolves inside the copy, to the object at the position of the
\* one it pointed to in t.
ClonePurity ==
    Running =>
        \A t \in Copyable(Heap) :
            LET r == cloneWithoutParentOrExternalPlacements(Heap, t)
                h2 == r.h
                Img(x) == Corresponding(Heap, t, x, h2, r.copy)
                Copy == Subtree(h2, r.copy)
            IN  /\ h2.ok
                /\ h2.parent[r.copy] = Null /\ h2.indexInParent[r.copy] = -1
                /\ IsRoot(h2, r.copy)
                /\ Copy \cap Allocated(Heap) = {}
                /\ Cardinality(Copy) = Cardinality(Subtree(Heap, t))
                /\ \A x \in Subtree(Heap, t) :
                      LET y == Img(x)
                          pe1 == Heap.placementExpressions[x]
                          pe2 == h2.placementExpressions[y]
                      IN  /\ y \in Copy
                          /\ Len(h2.subfeatures[y]) = Len(Heap.subfeatures[x])
                          /\ x # t => h2.parent[y] = Img(ParentOf(Heap, x))
                          /\ Len(pe2) = Len(pe1)
                          /\ \A i \in 1..Len(pe2) :
                                /\ pe2[i].owner = y
                                /\ pe2[i].refs \subseteq Copy \cup {Null}
                                /\ pe2[i].refs = {Img(q) : q \in pe1[i].refs}
                          /\ Len(h2.placementValues[y]) = Len(Heap.placementValues[x])
                          /\ \A i \in 1..Len(h2.placementValues[y]) :
                                h2.placementValues[y][i].owner = y
                          /\ \/ h2.placement[y] = NoPlacement
                             \/ /\ hasPlacement(Heap, x)
                                /\ h2.placement[y][1] \in Copy
                                /\ h2.placement[y] \in StoredPlacements(h2)
                                /\ h2.placement[y] =
                                       <<Img(Heap.placement[x][1]),
                                         Heap.placement[x][2]>>

\* A subtree of two Features has been copied: the copy holds an expression
\* with a Feature reference, an active placement and a placement value.
ClonePurityWitness ==
    /\ last.op = "clone" /\ last.outcome = "ok"
    /\ Cardinality(Subtree(Heap, last.copy)) >= 2
    /\ \E f, g, v \in Subtree(Heap, last.copy) :
          /\ hasPlacement(Heap, f)
          /\ placementExpressions[g] # <<>>
          /\ placementExpressions[g][1].refs # {}
          /\ placementValues[v] # <<>>

\* C7. External placements are dropped and internal ones kept: a Feature of
\* the copy has an active placement exactly when the active placement of the
\* Feature it was copied from is owned inside the copied subtree, and then it
\* is the placement at the same index in the corresponding owner.
ExternalPlacementsDropped ==
    Running =>
        \A t \in Copyable(Heap) :
            LET r == cloneWithoutParentOrExternalPlacements(Heap, t)
                h2 == r.h
                Img(x) == Corresponding(Heap, t, x, h2, r.copy)
            IN  /\ h2.ok
                /\ \A x \in Subtree(Heap, t) :
                      LET internal ==
                              /\ hasPlacement(Heap, x)
                              /\ AncestorOrSelf(Heap, t, Heap.placement[x][1])
                      IN  /\ hasPlacement(h2, Img(x)) <=> internal
                          /\ internal =>
                                h2.placement[Img(x)] =
                                    <<Img(Heap.placement[x][1]),
                                      Heap.placement[x][2]>>

\* Root{A,B} with A placed on an expression referencing B, owned by Root: the
\* copy of A alone has no active placement.
ExternalPlacementsDroppedWitness ==
    /\ last.op = "clone" /\ last.outcome = "ok"
    /\ hasPlacement(Heap, last.src)
    /\ ~AncestorOrSelf(Heap, last.src, placement[last.src][1])
    /\ \E b \in Allocated(Heap) :
          /\ Deref(Heap, placement[last.src]).refs = {b}
          /\ b # last.src
          /\ ParentOf(Heap, b) = ParentOf(Heap, last.src)
    /\ ~hasPlacement(Heap, last.copy)

\* Parent/child and owner/index consistency of a store.
Consistent(h) ==
    \A f \in Allocated(h) :
        /\ \A i \in 1..Len(h.subfeatures[f]) :
              /\ h.subfeatures[f][i] \in Allocated(h)
              /\ h.parent[h.subfeatures[f][i]] = f
              /\ h.indexInParent[h.subfeatures[f][i]] = i - 1
        /\ h.parent[f] = ParentOf(h, f)
        /\ h.parent[f] = Null => h.indexInParent[f] = -1
        /\ \A i \in 1..Len(h.placementExpressions[f]) :
              /\ h.placementExpressions[f][i].owner = f
              /\ h.placementExpressions[f][i].indexInOwner = i - 1
        /\ \A i \in 1..Len(h.placementValues[f]) :
              /\ h.placementValues[f][i].owner = f
              /\ h.placementValues[f][i].indexInOwner = i - 1

\* C8. After every completed operation the recorded parent and index of every
\* Feature, and the recorded owner and index of every stored placement
\* expression and value, are its actual parent, owner and position; and a
\* completed addSubfeatureLike(p, f, nm) appends one new Feature to p's
\* children, at the index of p's previous child count, with parent p and
\* name nm.
ParentOwnerConsistency ==
    Running =>
        /\ Consistent(Heap)
        /\ \A p \in Allocated(Heap), f \in Copyable(Heap), nm \in Names :
              LET r == addSubfeatureLike(Heap, p, f, nm)
                  index == Len(subfeatures[p])
              IN  r.outcome = "ok" =>
                      /\ r.newFeature \notin Allocated(Heap)
                      /\ r.h.subfeatures[p] = Append(subfeatures[p], r.newFeature)
                      /\ r.h.parent[r.newFeature] = p
                      /\ r.h.indexInParent[r.newFeature] = index
                      /\ r.h.name[r.newFeature] = nm

\* A copy of a Feature with a placement expression and a value has been
\* appended behind an earlier child.
ParentOwnerConsistencyWitness ==
    /\ last.op = "addSubfeatureLike" /\ last.outcome = "ok"
    /\ indexInParent[last.copy] >= 1
    /\ placementExpressions[last.copy] # <<>>
    /\ placementValues[last.copy] # <<>>

\* Some Feature p references is not in the tree of f.
CrossTree(h, f, p) ==
    \E q \in p.refs : ~AncestorOrSelf(h, RootOf(h, f), q)

\* C9 as stated. place(f, p) raises FeatureAndPlacementOnDifferentTrees
\* whenever p references a Feature outside the tree of f, and changes nothing.
CrossTreeAlwaysRejected ==
    Running =>
        \A f \in Allocated(Heap), p \in PlacementArgs(CoreBounds, Heap),
           c \in BOOLEAN :
            CrossTree(Heap, f, p) =>
                /\ place(Heap, f, p, c).outcome = "FeatureAndPlacementOnDifferentTrees"
                /\ place(Heap, f, p, c).h = Heap

\* C9 as amended. When p has, or can be converted to, the placement type f
\* requires and references a Feature outside the tree of f, place(f, p)
\* raises FeatureAndPlacementOnDifferentTrees; when p cannot be converted it
\* raises PlacementCantBeUsedForThisFeature; in both cases nothing is changed.
CrossTreeRejected ==
    Running =>
        \A f \in Allocated(Heap), p \in PlacementArgs(CoreBounds, Heap) :
            CrossTree(Heap, f, p) =>
                /\ place(Heap, f, p, TRUE).outcome =
                       "FeatureAndPlacementOnDifferentTrees"
                /\ place(Heap, f, p, TRUE).h = Heap
                /\ place(Heap, f, p, FALSE).outcome =
                       "PlacementCantBeUsedForThisFeature"
                /\ place(Heap, f, p, FALSE).h = Heap

\* A place has just raised FeatureAndPlacementOnDifferentTrees in a store
\* with two trees, a child Feature and an active placement.
CrossTreeRejectedWitness ==
    /\ last.op = "place"
    /\ last.outcome = "FeatureAndPlacementOnDifferentTrees"
    /\ \E f, g \in Allocated(Heap) :
          /\ ~IsRoot(Heap, f) /\ hasPlacement(Heap, f)
          /\ RootOf(Heap, g) # RootOf(Heap, f)

\* C10. addPlacementLike(owner, p) raises PlacementMustBeLocal and changes
\* nothing when p references a Feature outside owner's subtree; otherwise it
\* appends one copy of p to owner's sequence, stamped with owner and the
\* previous length, and changes nothing else.
RegistrationDiscipline ==
    Running =>
        \A owner \in Allocated(Heap), p \in PlacementArgs(RegBounds, Heap) :
            LET r == addPlacementLike(Heap, owner, p)
                index == Len(placementExpressions[owner])
            IN  IF \E q \in p.refs : ~AncestorOrSelf(Heap, owner, q)
                THEN r.thrown = "PlacementMustBeLocal" /\ r.h = Heap
                ELSE /\ r.thrown = ""
                     /\ r.good = <<owner, index>>
                     /\ r.h = [Heap EXCEPT !.placementExpressions[owner] =
                                  Append(@, Placement(owner, index, p.refs))]

\* addPlacementLike has just appended a second expression, with a Feature
\* reference, behind the one already stored on the owner.
RegistrationDisciplineWitness ==
    /\ last.op = "addPlacementLike" /\ last.outcome = "ok"
    /\ \E owner \in Allocated(Heap) :
          /\ Len(placementExpressions[owner]) = 2
          /\ placementExpressions[owner][2].refs # {}
          /\ \A g \in Allocated(Heap) : placement[g] # <<owner, 1>>


\* C11. findYoungestCommonAncestor(a, b) is the deepest Feature that is an
\* ancestor-or-self of both a and b; it is none exactly when a and b have
\* different roots; it is symmetric, and findYoungestCommonAncestor(a, a) = a.
YoungestCommonAncestor ==
    Running =>
        \A a, b \in Allocated(Heap) :
            LET y == findYoungestCommonAncestor(Heap, a, b)
            IN  /\ y = DeepestCommonAncestor(Heap, {a, b})
                /\ (y = Null) <=> (RootOf(Heap, a) # RootOf(Heap, b))
                /\ y = findYoungestCommonAncestor(Heap, b, a)
                /\ findYoungestCommonAncestor(Heap, a, a) = a

\* A Feature has been placed on an expression referencing a Feature of another
\* branch: the owner is their youngest common ancestor, above the parent; and
\* a Feature of another tree exists.
YoungestCommonAncestorWitness ==
    /\ last.op = "place" /\ last.outcome = "ok"
    /\ \E f, b, c \in Allocated(Heap) :
          /\ hasPlacement(Heap, f)
          /\ Deref(Heap, placement[f]).refs = {b}
          /\ ~AncestorOrSelf(Heap, ParentOf(Heap, f), b)
          /\ placement[f][1] = findYoungestCommonAncestor(Heap, ParentOf(Heap, f), b)
          /\ findYoungestCommonAncestor(Heap, f, c) = Null

\* C12. Correspondence round trip: with copy a fresh copy of the subtree of
\* t, findCorrespondingFeature(t, f, copy) is the Feature of the copy reached
\* by the child indices that lead from t to f, findCorrespondingFeature(copy,
\* that Feature, t) is f, and findCorrespondingFeature is none when f is not
\* under t.
CorrespondenceRoundTrip ==
    Running =>
        \A t \in Allocated(Heap) :
            LET r == cloneWithoutParentOrExternalPlacements(Heap, t)
            IN  \A f \in Allocated(Heap) :
                    LET g == findCorrespondingFeature(r.h, t, f, r.copy)
                    IN  IF AncestorOrSelf(Heap, t, f)
                        THEN /\ g = NodeAt(r.h, r.copy, PathOf(Heap, t, f))
                             /\ g \in Subtree(r.h, r.copy)
                             /\ findCorrespondingFeature(r.h, r.copy, g, t) = f
                        ELSE g = Null

\* A subtree has been copied and one of its Features, not the root, has its
\* counterpart in the copy; a Feature outside the subtree has none.
CorrespondenceRoundTripWitness ==
    /\ last.op = "clone" /\ last.outcome = "ok"
    /\ \E f, x \in Allocated(Heap) :
          /\ f # last.src /\ AncestorOrSelf(Heap, last.src, f)
          /\ findCorrespondingFeature(Heap, last.src, f, last.copy)
                 \in Subtree(Heap, last.copy) \ {last.copy}
          /\ findCorrespondingFeature(Heap, last.copy,
                 findCorrespondingFeature(Heap, last.src, f, last.copy),
                 last.src) = f
          /\ findCorrespondingFeature(Heap, last.src, x, last.copy) = Null

\* The entries of s in the opposite order.
Reverse(s) == SeqOf(Len(s), LAMBDA i : s[Len(s) + 1 - i])

\* C13 as stated. isFeatureInFeatureTree(root, f, trace) succeeds exactly when
\* root is f or an ancestor of f; on success the trace is the child indices
\* in order from root down to f, on failure it is empty.
TraceFromRootDown ==
    Running =>
        \A root, f \in Allocated(Heap) :
            LET t == isFeatureInFeatureTreeTrace(Heap, root, f)
            IN  /\ t.found <=> AncestorOrSelf(Heap, root, f)
                /\ t.found => t.trace = PathOf(Heap, root, f)
                /\ ~t.found => t.trace = <<>>

\* C13 as amended. isFeatureInFeatureTree(root, f, trace) succeeds exactly
\* when root is f or an ancestor of f; on success the trace is the child
\* indices from f up to root, the index of f in its parent first (empty when
\* f is root); on failure it is empty.
TraceFromFeatureUp ==
    Running =>
        \A root, f \in Allocated(Heap) :
            LET t == isFeatureInFeatureTreeTrace(Heap, root, f)
            IN  /\ t.found <=> AncestorOrSelf(Heap, root, f)
                /\ t.found => t.trace = Reverse(PathOf(Heap, root, f))
                /\ ~t.found => t.trace = <<>>

\* A Feature two levels under a root, at child indices that differ, and a
\* Feature with a parent that is not under some other Feature.
TraceFromFeatureUpWitness ==
    \E root, f, other, g \in Allocated(Heap) :
        /\ isFeatureInFeatureTreeTrace(Heap, root, f).found
        /\ Len(isFeatureInFeatureTreeTrace(Heap, root, f).trace) = 2
        /\ isFeatureInFeatureTreeTrace(Heap, root, f).trace[1]
               # isFeatureInFeatureTreeTrace(Heap, root, f).trace[2]
        /\ ~isFeatureInFeatureTreeTrace(Heap, other, g).found
        /\ ~IsRoot(Heap, g)


\* The segments of a string split on '/': one more than it has '/'.
RECURSIVE Split(_)
Split(path) ==
    IF \E i \in 1..Len(path) : path[i] = Slash
    THEN LET i == CHOOSE k \in 1..Len(path) :
                      path[k] = Slash /\ \A j \in 1..(k - 1) : path[j] # Slash
         IN  <<SubSeq(path, 1, i - 1)>> \o Split(SubSeq(path, i + 1, Len(path)))
    ELSE <<path>>

\* The segments of a pathname as the claim counts them: none for the empty
\* pathname.
SegmentsOf(path) == IF path = <<>> THEN <<>> ELSE Split(path)

\* C14. isLegalFeaturePathname(path) returns true exactly when splitting path
\* on '/' yields at least one segment and every segment, the empty ones of a
\* leading, doubled or trailing '/' included, is a legal name; when it returns
\* false for a non-empty path the last segment captured is the offending one.
LegalPathname ==
    pathResult.done =>
        /\ pathResult.legal <=>
               /\ SegmentsOf(pathname) # <<>>
               /\ \A i \in 1..Len(SegmentsOf(pathname)) :
                      isLegalFeatureName(SegmentsOf(pathname)[i])
        /\ (~pathResult.legal /\ pathname # <<>>) =>
               /\ pathResult.segments # <<>>
               /\ ~isLegalFeatureName(
                      pathResult.segments[Len(pathResult.segments)])


\* The positions in log of the events of the given kind for Feature g.
EventsOf(log, kind, g) ==
    {k \in 1..Len(log) : log[k].kind = kind /\ log[k].feature = g}

\* The one position of such an event.
EventOf(log, kind, g) == CHOOSE k \in EventsOf(log, kind, g) : TRUE

\* log is a realization of the subtree of f in the order claimed.
InRealizationOrder(h, f, log) ==
    /\ \A k \in 1..Len(log) : log[k].feature \in Subtree(h, f)
    /\ \A g \in Subtree(h, f) :
          /\ Cardinality(EventsOf(log, "call", g)) = 1
          /\ Cardinality(EventsOf(log, "return", g)) = 1
          /\ EventOf(log, "call", g) < EventOf(log, "return", g)
             \* the own placement: once, after every child, if there is one
          /\ Cardinality(EventsOf(log, "placement", g)) =
                 IF hasPlacement(h, g) THEN 1 ELSE 0
          /\ \A k \in EventsOf(log, "placement", g) :
                /\ log[k].placement = h.placement[g]
                /\ k < EventOf(log, "return", g)
                /\ \A d \in Subtree(h, g) \ {g} : EventOf(log, "return", d) < k
             \* every child subtree inside the call, in index order, one
             \* completely before the next
          /\ \A i \in 1..Len(h.subfeatures[g]) :
                LET c == h.subfeatures[g][i]
                IN  /\ EventOf(log, "call", g) < EventOf(log, "call", c)
                    /\ EventOf(log, "return", c) < EventOf(log, "return", g)
                    /\ \A k \in 1..Len(log) :
                          log[k].feature \in Subtree(h, c) =>
                              /\ EventOf(log, "call", c) <= k
                              /\ k <= EventOf(log, "return", c)
                    /\ i > 1 =>
                          EventOf(log, "return", h.subfeatures[g][i - 1])
                              < EventOf(log, "call", c)

\* C15. Realization order: realize on a Feature realizes every child subtree
\* in index order, each child completely before the next, and only after all
\* children realizes the Feature's own active placement, exactly once and
\* only if it has one.
RealizationOrder ==
    last.op = "realize" => InRealizationOrder(Heap, last.src, realized)

\* A Feature with two children has been realized: the first child has a child
\* of its own; the subtree holds a Feature with an active placement that has
\* a child, and a Feature without.
RealizationOrderWitness ==
    /\ last.op = "realize"
    /\ Len(subfeatures[last.src]) >= 2
    /\ subfeatures[subfeatures[last.src][1]] # <<>>
    /\ \E g, e \in Subtree(Heap, last.src) :
          /\ hasPlacement(Heap, g) /\ subfeatures[g] # <<>>
          /\ ~hasPlacement(Heap, e)


\* s is an initial part of t.
IsPrefix(s, t) == Len(s) <= Len(t) /\ SubSeq(t, 1, Len(s)) = s

\* A step keeps every child, placement expression and placement value of
\* every Feature at its index.
AppendOnlyStep ==
    \A f \in Allocated(Heap) :
        /\ IsPrefix(subfeatures[f], subfeatures'[f])
        /\ IsPrefix(placementExpressions[f], placementExpressions'[f])
        /\ IsPrefix(placementValues[f], placementValues'[f])

\* Placing again on a Feature that has an active placement keeps the stored
\* expressions and redirects only that Feature's active placement, to the
\* expression appended last.
SecondPlaceKeepsFirst ==
    Running =>
        \A f \in Allocated(Heap), p \in PlacementArgs(RegBounds, Heap) :
            LET r == place(Heap, f, p, TRUE)
            IN  (hasPlacement(Heap, f) /\ r.outcome = "ok") =>
                    /\ placement[f] \in StoredPlacements(r.h)
                    /\ Deref(r.h, placement[f]) = Deref(Heap, placement[f])
                    /\ r.h.placement[f] # placement[f]
                    /\ r.h.placement[f] \notin StoredPlacements(Heap)
                    /\ \A g \in Allocated(Heap) \ {f} :
                          r.h.placement[g] = placement[g]

SelfOwnershipCheckNeverFails ==
    Running =>
        \A f \in Allocated(Heap), p \in PlacementArgs(CoreBounds, Heap) :
            LET r == place(Heap, f, p, TRUE)
            IN  (/\ ~CrossTree(Heap, f, p)
                 /\ ~Depends(Heap, p, f)
                 /\ r.good # NoPlacement)
                => /\ isConstant(Deref(r.h, r.good))
                      \/ Deref(r.h, r.good).owner # f
                   /\ Deref(r.h, r.good).owner = f => IsRoot(Heap, f)
                   /\ r.outcome = "ok"


\* C18. Clone-before-append ordering of addSubfeatureLike(p, f, nm): the new
\* child is a copy of the subtree of f as it was before the call (same shape,
\* same number of children per Feature) for every prototype f, also when f is
\* p itself or an ancestor of p.
CloneBeforeAppend ==
    Running =>
        \A p, f \in Allocated(Heap), nm \in Names :
            LET r == addSubfeatureLike(Heap, p, f, nm)
            IN  /\ r.outcome = "ok"
                /\ Cardinality(Subtree(r.h, r.newFeature))
                       = Cardinality(Subtree(Heap, f))
                /\ \A x \in Subtree(Heap, f) :
                      LET y == NodeAt(r.h, r.newFeature, PathOf(Heap, f, x))
                      IN  /\ y # Null
                          /\ Len(r.h.subfeatures[y]) = Len(subfeatures[x])

\* C19. Non-atomic insertion: when a step of addSubfeatureLike(p, f, nm)
\* after the append to p's children fails, such as the post-processing hook,
\* the append is not rolled back: p has one child more than before the call
\* and the new entry remains.
NonAtomicInsertion ==
    Running =>
        \A p, f \in Allocated(Heap), nm \in Names :
            LET r == addSubfeatureLikeHook(Heap, p, f, nm, TRUE)
            IN  /\ r.outcome # "ok"
                /\ r.h.subfeatures[p] = Append(subfeatures[p], r.newFeature)
                /\ r.newFeature \notin Allocated(Heap)
                /\ r.outcome = "SubfeatureHookFailed" =>
                       /\ r.h.parent[r.newFeature] = p
                       /\ r.h.name[r.newFeature] = nm

\* The hook has just failed for a second child: the child is in its parent's
\* sequence, behind the first.
NonAtomicInsertionWitness ==
    /\ last.op = "addSubfeatureLike"
    /\ last.outcome = "SubfeatureHookFailed"
    /\ \E p \in Allocated(Heap) :
          /\ Len(subfeatures[p]) = 2
          /\ subfeatures[p][2] = last.copy


\* C20. Pass ordering inside clone: when fixPlacements starts,
\* reparentMyChildren has rewritten the parent of every descendant and the
\* owner of every owned placement expression and value in the whole copy; so
\* whenever findCorrespondingPlacement finds a placement during the copy, its
\* owner is the corresponding Feature of the copy and its index in the owner
\* is that of the source placement: the assertions never fail.
PassOrdering ==
    Running =>
        \A t \in Copyable(Heap) :
            LET h2 == reparentedCopy(Heap, t)
                r == cloneWithoutParentOrExternalPlacements(Heap, t)
                Copy == Subtree(h2, r.copy)
            IN  /\ h2.ok
                /\ \A y \in Copy :
                      /\ y # r.copy =>
                            /\ h2.parent[y] \in Copy
                            /\ h2.parent[y] = ParentOf(h2, y)
                      /\ \A i \in 1..Len(h2.placementExpressions[y]) :
                            h2.placementExpressions[y][i].owner = y
                      /\ \A i \in 1..Len(h2.placementValues[y]) :
                            h2.placementValues[y][i].owner = y
                /\ r.h.ok
                /\ \A x \in Subtree(Heap, t) :
                      LET y == Corresponding(Heap, t, x, r.h, r.copy)
                      IN  hasPlacement(r.h, y) =>
                              /\ Deref(r.h, r.h.placement[y]).owner =
                                     Corresponding(Heap, t, placement[x][1],
                                                   r.h, r.copy)
                              /\ Deref(r.h, r.h.placement[y]).indexInOwner =
                                     Deref(Heap, placement[x]).indexInOwner

\* A Feature has been copied with a child whose active placement it owns:
\* the placement of the child's copy is owned by the root of the copy; the
\* copy holds a placement value.
PassOrderingWitness ==
    /\ last.op = "clone" /\ last.outcome = "ok"
    /\ \E f, v \in Subtree(Heap, last.copy) :
          /\ f # last.copy
          /\ hasPlacement(Heap, f)
          /\ Deref(Heap, placement[f]).owner = last.copy
          /\ placementValues[v] # <<>>


\* The Features on the way from f up along the parent pointers, f first, as
\* far as k steps go.
RECURSIVE ParentChain(_, _, _)
ParentChain(h, f, k) ==
    IF h.parent[f] = Null \/ k = 0 THEN <<f>>
    ELSE <<f>> \o ParentChain(h, h.parent[f], k - 1)

\* Following the parent pointers from any Feature ends at a Feature without
\* a parent, within as many steps as there are Features.
ParentAcyclic(h) ==
    \A f \in Allocated(h) :
        LET chain == ParentChain(h, f, h.n)
        IN  /\ \A i \in 1..Len(chain) : chain[i] \in Allocated(h)
            /\ h.parent[chain[Len(chain)]] = Null
            /\ \A i, j \in 1..Len(chain) : chain[i] = chain[j] => i = j

\* C21. Single root and termination: in every state reached by
\* addSubfeatureLike and place operations the parent relation is acyclic, so
\* findRootFeature terminates for every Feature and returns the one Feature
\* without a parent on the ancestor chain of that Feature, which is its last;
\* all Features of one tree get the same root.
SingleRoot ==
    /\ ParentAcyclic(Heap)
    /\ \A f \in Allocated(Heap) :
          LET chain == ParentChain(Heap, f, nFeatures)
              root == findRootFeature(Heap, f)
          IN  /\ root = chain[Len(chain)]
              /\ \A i \in 1..Len(chain) : parent[chain[i]] = Null <=> chain[i] = root
              /\ Running => \A g \in Subtree(Heap, f) :
                                findRootFeature(Heap, g) = root

\* A copy of a Feature with a child has been inserted under the root of
\* another tree: the child of the copy is two parents away from its root,
\* and the prototype's tree has a root of its own.
SingleRootWitness ==
    /\ last.op = "addSubfeatureLike" /\ last.outcome = "ok"
    /\ hasParentFeature(Heap, last.copy)
    /\ \E g \in Allocated(Heap) :
          /\ parent[g] = last.copy
          /\ findRootFeature(Heap, g) = parent[last.copy]
          /\ findRootFeature(Heap, last.src) # findRootFeature(Heap, g)


\* C22. PlacementMustBeLocal is unreachable through place: whenever
\* place(F, p) has passed the same-tree check, the owner it computes has F
\* and every Feature referenced by p in its subtree, so the check in
\* addPlacementLike passes and place never raises PlacementMustBeLocal; the
\* error arises from a direct addPlacementLike call only.
PlacementMustBeLocalOnlyDirect ==
    /\ last.outcome = "PlacementMustBeLocal" => last.op = "addPlacementLike"
    /\ Running =>
          \A f \in Allocated(Heap), p \in PlacementArgs(RegBounds, Heap),
             c \in BOOLEAN :
              LET r == place(Heap, f, p, c)
                  owner == findAncestorFeature(Heap, p, youngestAllowed(Heap, f))
              IN  /\ r.outcome # "PlacementMustBeLocal"
                  /\ (c /\ isLimitedToSubtree(Heap, p, findRootFeature(Heap, f)))
                        => /\ owner \in Allocated(Heap)
                           /\ AncestorOrSelf(Heap, owner, f)
                           /\ \A q \in p.refs : AncestorOrSelf(Heap, owner, q)
                           /\ addPlacementLike(Heap, owner, p).thrown = ""

\* place has stored the placement of a Feature that has a parent under an
\* owner above that parent, the placement referencing a Feature outside the
\* subtree of the parent.
PlacementMustBeLocalOnlyDirectWitness ==
    /\ last.op = "place" /\ last.outcome = "ok"
    /\ \E f \in Allocated(Heap) :
          /\ hasParentFeature(Heap, f)
          /\ hasPlacement(Heap, f)
          /\ Deref(Heap, placement[f]).owner \notin {f, parent[f]}
          /\ \E q \in Deref(Heap, placement[f]).refs :
                ~AncestorOrSelf(Heap, parent[f], q)

====
